---- MODULE Spec2Model ----
(***************************************************************************)
(* A model of scripts/isomap.py: the synthesis of a grid of chirp signals, *)
(* the five feature extractors, and the Isomap / nearest-neighbour ratio   *)
(* analysis with the files it writes.                                      *)
(*                                                                         *)
(* Numbers.  A parameter value is a record [cls, num, den]: cls = "pos"    *)
(* stands for the positive real 2^(num/den), cls = "zero" for 0.0, and     *)
(* "inf" / "nan" for the IEEE results of dividing by zero.  A logarithm is *)
(* a record [k, num, den] standing for (num/den)*ln 2, or -inf, or nan.    *)
(* Arithmetic on these records is exact; floating-point rounding is not    *)
(* modelled.                                                               *)
(*                                                                         *)
(* Waveforms.  A waveform is the record of the arguments generate() was    *)
(* called with (f_c, f_m, gamma, bw, number of samples) together with the  *)
(* class of its L2 norm: "zero", "some" (a positive number), "one", "nan". *)
(*                                                                         *)
(* Arrays.  Indices are 0-based as in numpy.  A 4-D array is a record      *)
(* [shape, at] with at a function on index triples (the last axis is kept  *)
(* whole); a 2-D array is a record [nrows, ncols, row].                    *)
(***************************************************************************)
EXTENDS Integers, Sequences, FiniteSets, TLC

VARIABLES
    pc,            \* position of the run
    n_steps, bw, duration, sr,   \* arguments of run_isomap
    skip_openl3,   \* module-level flag set by the guarded import
    had_out_dir,   \* whether out_dir existed before the run
    f0s, fms, gammas,            \* the three grids
    audio,         \* 4-D audio tensor
    cmap,          \* parameter map, cmap[p][col], shape (3, n_samples)
    c,             \* running column counter of generate_audio
    ijk,           \* loop indices <<i, j, k>> of generate_audio
    cmapWrites,    \* how many times each column of cmap was assigned
    X,             \* feature tables by family name
    dirs,          \* directories that exist
    written,       \* image files written by the run
    fitCalls,      \* families for which Isomap.fit_transform was invoked
    knn,           \* per family, the fitted neighbour index table
    ratios,        \* per family, the recovery-ratio table
    feat_i,        \* loop position of run_isomaps over X.keys()
    nbr_seed,      \* which neighbour graphs the data of this run yields
    calls,         \* the stage functions invoked so far, in order
    err            \* the stage that raised, or "none"

vars == <<pc, n_steps, bw, duration, sr, skip_openl3, had_out_dir, nbr_seed, f0s, fms,
          gammas, audio, cmap, c, ijk, cmapWrites, X, dirs, written, fitCalls,
          knn, ratios, feat_i, calls, err>>

-----------------------------------------------------------------------------
(* Bounds of the model and constants of the program *)

MaxSteps == 4

MaxGridLen == 2

DefaultNNeighbors == 40

DefaultBw == 2

NMfcc == 20

F0MinLog2 == 9

F0MaxLog2 == 10

FmMinLog2 == 2

FmMaxLog2 == 4

GammaMinLog2 == -1

GammaMaxLog2 == 2

\* bw values a run may be started with (the default and another one)
Bws == {2, 3}

\* <<duration, sr>> pairs a run may be started with
DurSr == {<<1, 1024>>, <<4, 8192>>}

-----------------------------------------------------------------------------
(* Real numbers *)

Pow2(num, den) == [cls |-> "pos", num |-> num, den |-> den]

Zero == [cls |-> "zero", num |-> 0, den |-> 1]

Inf == [cls |-> "inf", num |-> 0, den |-> 1]

NaN == [cls |-> "nan", num |-> 0, den |-> 1]

\* np.log
Log(v) ==
    CASE v.cls = "pos"  -> [k |-> "fin", num |-> v.num, den |-> v.den]
      [] v.cls = "zero" -> [k |-> "-inf", num |-> 0, den |-> 1]
      [] v.cls = "inf"  -> [k |-> "+inf", num |-> 0, den |-> 1]
      [] OTHER          -> [k |-> "nan", num |-> 0, den |-> 1]

\* np.exp
Exp(l) ==
    CASE l.k = "fin"  -> Pow2(l.num, l.den)
      [] l.k = "-inf" -> Zero
      [] l.k = "+inf" -> Inf
      [] OTHER        -> NaN

\* a + b on logarithms
AddLog(a, b) ==
    CASE a.k = "nan" \/ b.k = "nan" -> [k |-> "nan", num |-> 0, den |-> 1]
      [] a.k = "fin" /\ b.k = "fin" /\ a.den = b.den ->
            [k |-> "fin", num |-> a.num + b.num, den |-> a.den]
      [] a.k = "fin" /\ b.k = "fin" ->
            [k |-> "fin", num |-> a.num * b.den + b.num * a.den, den |-> a.den * b.den]
      [] a.k = "fin" -> b
      [] b.k = "fin" -> a
      [] a.k = b.k   -> a
      [] OTHER       -> [k |-> "nan", num |-> 0, den |-> 1]

\* the sum of s[lo .. hi], by halves
RECURSIVE SumLogRange(_, _, _)
SumLogRange(s, lo, hi) ==
    IF lo > hi THEN [k |-> "fin", num |-> 0, den |-> 1]
    ELSE IF lo = hi THEN s[lo]
    ELSE LET mid == (lo + hi) \div 2
         IN AddLog(SumLogRange(s, lo, mid), SumLogRange(s, mid + 1, hi))

SumLog(s) == SumLogRange(s, 1, Len(s))

\* np.mean over a sequence of logarithms
MeanLog(s) ==
    LET t == SumLog(s) IN
    IF Len(s) = 0 THEN [k |-> "nan", num |-> 0, den |-> 1]
    ELSE IF t.k = "fin" THEN [k |-> "fin", num |-> t.num, den |-> t.den * Len(s)]
    ELSE t

\* a / b
Div(a, b) ==
    CASE a.cls = "nan" \/ b.cls = "nan" -> NaN
      [] a.cls = "pos" /\ b.cls = "pos" ->
            Pow2(a.num * b.den - b.num * a.den, a.den * b.den)
      [] a.cls = "zero" /\ b.cls = "zero" -> NaN
      [] a.cls = "inf" /\ b.cls = "inf"   -> NaN
      [] a.cls = "zero" \/ b.cls = "inf"  -> Zero
      [] OTHER -> Inf

\* np.logspace(log10(lo), log10(hi), n) with lo = 2^a and hi = 2^b
LogSpace(a, b, n) ==
    LET d == IF n = 1 THEN 1 ELSE n - 1 IN
    [i \in 0 .. n - 1 |-> Pow2(a * d + i * (b - a), d)]

-----------------------------------------------------------------------------
(* Arrays *)

GLen(g) == Cardinality(DOMAIN g)

Triples(nF, nM, nG) == (0 .. nF - 1) \X (0 .. nM - 1) \X (0 .. nG - 1)

\* mutant: the same reshape in column-major (Fortran) order
Reshape2DColumnMajor(a) ==
    LET nF == a.shape[1]
        nM == a.shape[2]
        last == a.shape[4]
        size == nF * nM * a.shape[3] * last
    IN [nrows |-> size \div last,
        ncols |-> last,
        row   |-> [r \in 0 .. (size \div last) - 1 |->
                     a.at[<<r % nF, (r \div nF) % nM, r \div (nF * nM)>>]]]

\* a.reshape(-1, a.shape[-1]) of a 4-D array, numpy's row-major order
Reshape2D(a) ==
    LET nM == a.shape[2]
        nG == a.shape[3]
        last == a.shape[4]
        size == a.shape[1] * nM * nG * last
    IN [nrows |-> size \div last,
        ncols |-> last,
        row   |-> [r \in 0 .. (size \div last) - 1 |->
                     a.at[<<r \div (nM * nG), (r \div nG) % nM, r % nG>>]]]

-----------------------------------------------------------------------------
(* Signal generator *)

\* np.zeros(n): a silent waveform
Silence(n) ==
    [f_c |-> Zero, f_m |-> Zero, gamma |-> Zero, bw |-> 0, n |-> n, norm |-> "zero"]

\* generate(f_c, f_m, gamma, bw, duration, sr): carrier * modulator * window.
\* f_c = 0 makes the chirp phase, hence the carrier sin(0), 0 at every sample
\* and f_m = 0 does so for the modulator; otherwise the samples with t # 0
\* are non-zero (sin of a non-zero float is non-zero; the window is taken
\* wide enough not to underflow, as it is for gamma <= 4 and sr >= 2^10).
\* A gamma of 0 as a numpy float makes the phase (f_c / 0) * 0 = nan.
generate(f_c, f_m, gamma, b, dur, rate) ==
    [f_c |-> f_c, f_m |-> f_m, gamma |-> gamma, bw |-> b, n |-> dur * rate,
     norm |-> CASE gamma.cls # "pos" -> "nan"
                [] f_c.cls = "zero" \/ f_m.cls = "zero" -> "zero"
                [] f_c.cls = "pos" /\ f_m.cls = "pos" -> "some"
                [] OTHER -> "nan"]

\* x / np.linalg.norm(x)
Normalize(w) ==
    [w EXCEPT !.norm = IF w.norm \in {"some", "one"} THEN "one" ELSE "nan"]

\* mutant: the bw of the run is passed on to generate
GridWaveformPassBw(f0, fm, gamma, dur, rate) ==
    Normalize(generate(f0, fm, gamma, bw, dur, rate))

\* the waveform generate_audio stores for one grid point (bw is not passed)
GridWaveform(f0, fm, gamma, dur, rate) ==
    Normalize(generate(f0, fm, gamma, DefaultBw, dur, rate))

\* the loop indices after one more iteration of the innermost loop
NextIndex(t, nM, nG) ==
    IF t[3] + 1 < nG THEN <<t[1], t[2], t[3] + 1>>
    ELSE IF t[2] + 1 < nM THEN <<t[1], t[2] + 1, 0>>
    ELSE <<t[1] + 1, 0, 0>>

\* mutant: the time axis is allocated with sr samples, not duration * sr
ZerosAudioSr(nF, nM, nG, dur, rate) ==
    [shape |-> <<nF, nM, nG, rate>>,
     at |-> [t \in Triples(nF, nM, nG) |-> Silence(rate)]]

\* np.zeros((len(f0s), len(fms), len(gammas), duration * sr))
ZerosAudio(nF, nM, nG, dur, rate) ==
    [shape |-> <<nF, nM, nG, dur * rate>>,
     at |-> [t \in Triples(nF, nM, nG) |-> Silence(dur * rate)]]

\* np.zeros((3, len(f0s) * len(fms) * len(gammas)))
ZerosCmap(nF, nM, nG) ==
    [p \in 0 .. 2 |-> [col \in 0 .. nF * nM * nG - 1 |-> Zero]]

\* generate_audio: allocation of audio and cmap, c = 0
GenerateAudioEnter ==
    /\ pc = "generate_audio"
    /\ audio' = ZerosAudio(GLen(f0s), GLen(fms), GLen(gammas), duration, sr)
    /\ cmap' = ZerosCmap(GLen(f0s), GLen(fms), GLen(gammas))
    /\ cmapWrites' = [col \in 0 .. GLen(f0s) * GLen(fms) * GLen(gammas) - 1 |-> 0]
    /\ c' = 0
    /\ ijk' = <<0, 0, 0>>
    /\ calls' = Append(calls, "generate_audio")
    /\ pc' = "gen_loop"
    /\ UNCHANGED <<n_steps, bw, duration, sr, skip_openl3, had_out_dir, nbr_seed, f0s, fms,
                   gammas, X, dirs, written, fitCalls, knn, ratios, feat_i, err>>

\* one iteration of the innermost loop of generate_audio
GenerateStep ==
    /\ pc = "gen_loop"
    /\ ijk[1] < GLen(f0s)
    /\ LET f0 == f0s[ijk[1]]
           fm == fms[ijk[2]]
           gamma == gammas[ijk[3]]
       IN /\ audio' = [audio EXCEPT !.at[ijk] = GridWaveform(f0, fm, gamma, duration, sr)]
          /\ cmap' = [cmap EXCEPT ![0][c] = f0, ![1][c] = fm, ![2][c] = gamma]
    /\ cmapWrites' = [cmapWrites EXCEPT ![c] = @ + 1]
    /\ c' = c + 1
    /\ ijk' = NextIndex(ijk, GLen(fms), GLen(gammas))
    /\ UNCHANGED <<pc, n_steps, bw, duration, sr, skip_openl3, had_out_dir, nbr_seed, f0s, fms,
                   gammas, X, dirs, written, fitCalls, knn, ratios, feat_i, calls, err>>

\* mutant: the time-scattering extractor runs before the MFCC extractor
StageAfterSwapped(s) ==
    CASE s = "generate_audio"          -> "extract_time_scattering"
      [] s = "extract_time_scattering" -> "extract_mfcc"
      [] s = "extract_mfcc"            -> "extract_jtfs"
      [] s = "extract_jtfs"            -> "extract_openl3"
      [] s = "extract_openl3"          -> "extract_strf"
      [] s = "extract_strf"            -> "run_isomaps"

\* the stage that follows a stage in the body of run_isomap
StageAfter(s) ==
    CASE s = "generate_audio"          -> "extract_mfcc"
      [] s = "extract_mfcc"            -> "extract_time_scattering"
      [] s = "extract_time_scattering" -> "extract_jtfs"
      [] s = "extract_jtfs"            -> "extract_openl3"
      [] s = "extract_openl3"          -> "extract_strf"
      [] s = "extract_strf"            -> "run_isomaps"

\* generate_audio returns audio, cmap
GenerateReturn ==
    /\ pc = "gen_loop"
    /\ ijk[1] >= GLen(f0s)
    /\ pc' = StageAfter("generate_audio")
    /\ UNCHANGED <<n_steps, bw, duration, sr, skip_openl3, had_out_dir, nbr_seed, f0s, fms,
                   gammas, audio, cmap, c, ijk, cmapWrites, X, dirs, written,
                   fitCalls, knn, ratios, feat_i, calls, err>>

-----------------------------------------------------------------------------
(* Feature extractors *)

\* the feature vector a family's transform computes from one waveform
Feature(fam, w) == [fam |-> fam, of |-> w]

\* extract_mfcc: the 4-D table filled per grid point, then reshape(-1, n_mfcc)
ExtractMfccTable(a, gf0, gfm, ggamma) ==
    Reshape2D([shape |-> <<GLen(gf0), GLen(gfm), GLen(ggamma), NMfcc>>,
               at |-> [t \in Triples(GLen(gf0), GLen(gfm), GLen(ggamma)) |->
                         Feature("MFCC", a.at[t])]])

\* mutant: the loop stops one row early
ExtractRowsShort(fam, x2) ==
    [nrows |-> x2.nrows - 1,
     ncols |-> "n_paths",
     row   |-> [i \in 0 .. x2.nrows - 2 |-> Feature(fam, x2.row[i])]]

\* the per-row loop of extract_time_scattering, extract_jtfs and extract_strf,
\* and the per-item list of extract_openl3, over a 2-D batch of waveforms
ExtractRows(fam, x2) ==
    [nrows |-> x2.nrows,
     ncols |-> "n_paths",
     row   |-> [i \in 0 .. x2.nrows - 1 |-> Feature(fam, x2.row[i])]]

\* a stage of run_isomap raises: the exception propagates out of the run
Raise(stage) ==
    /\ pc' = "error"
    /\ err' = stage

\* what every extractor stage leaves alone besides pc, X, calls and err
ExtractorFrame ==
    UNCHANGED <<n_steps, bw, duration, sr, skip_openl3, had_out_dir, nbr_seed, f0s, fms,
                gammas, audio, cmap, c, ijk, cmapWrites, dirs, written,
                fitCalls, knn, ratios, feat_i>>

\* mfcc = extract_mfcc(audio, f0s, fms, gammas, sr)
ExtractMfcc ==
    /\ pc = "extract_mfcc"
    /\ calls' = Append(calls, "extract_mfcc")
    /\ \/ /\ X' = ("MFCC" :> ExtractMfccTable(audio, f0s, fms, gammas)) @@ X
          /\ pc' = StageAfter("extract_mfcc")
          /\ err' = err
       \/ /\ Raise("extract_mfcc")
          /\ X' = X
    /\ ExtractorFrame

\* ts = extract_time_scattering(audio.reshape(-1, audio.shape[-1]), duration, sr)
ExtractTimeScattering ==
    /\ pc = "extract_time_scattering"
    /\ calls' = Append(calls, "extract_time_scattering")
    /\ \/ /\ X' = ("TS" :> ExtractRows("TS", Reshape2D(audio))) @@ X
          /\ pc' = StageAfter("extract_time_scattering")
          /\ err' = err
       \/ /\ Raise("extract_time_scattering")
          /\ X' = X
    /\ ExtractorFrame

\* jtfs = extract_jtfs(audio.reshape(-1, audio.shape[-1]), duration, sr)
ExtractJtfs ==
    /\ pc = "extract_jtfs"
    /\ calls' = Append(calls, "extract_jtfs")
    /\ \/ /\ X' = ("JTFS" :> ExtractRows("JTFS", Reshape2D(audio))) @@ X
          /\ pc' = StageAfter("extract_jtfs")
          /\ err' = err
       \/ /\ Raise("extract_jtfs")
          /\ X' = X
    /\ ExtractorFrame

\* ol3 = extract_openl3(audio.reshape(-1, audio.shape[-1]), sr).  The call is
\* made whatever skip_openl3 is; when the import failed the name openl3 is
\* unbound and the first statement of extract_openl3 raises NameError.
ExtractOpenl3 ==
    /\ pc = "extract_openl3"
    /\ calls' = Append(calls, "extract_openl3")
    /\ \/ /\ ~skip_openl3
          /\ X' = ("OPEN-L3" :> ExtractRows("OPEN-L3", Reshape2D(audio))) @@ X
          /\ pc' = StageAfter("extract_openl3")
          /\ err' = err
       \/ /\ Raise("extract_openl3")
          /\ X' = X
    /\ ExtractorFrame

\* strf = extract_strf(audio.reshape(-1, audio.shape[-1]), duration, sr)
ExtractStrf ==
    /\ pc = "extract_strf"
    /\ calls' = Append(calls, "extract_strf")
    /\ \/ /\ X' = ("STRF" :> ExtractRows("STRF", Reshape2D(audio))) @@ X
          /\ pc' = StageAfter("extract_strf")
          /\ err' = err
       \/ /\ Raise("extract_strf")
          /\ X' = X
    /\ ExtractorFrame

-----------------------------------------------------------------------------
(* Manifold embedding, ratio analysis and plots *)

\* the feature families in the order of the dict X of run_isomap
Families == <<"MFCC", "TS", "JTFS", "OPEN-L3", "STRF">>

\* os.getcwd() + out_dir, as a path
OutDir == <<"img">>

\* os.path.join(path, name)
Join(path, name) == Append(path, name)

\* mutant: the scatter plot is saved at the top of the output directory
IsomapPngTop(dir) == Join(OutDir, "isomap.png")

\* the file plot_isomap(Y, cmap, out_dir) saves
IsomapPng(dir) == Join(dir, "isomap.png")

\* the file plot_knn_regression(ratios, out_dir) saves
KnnPng(dir) == Join(dir, "knn.png")

\* X.keys(), in insertion order
XKeys == SelectSeq(Families, LAMBDA f : f \in DOMAIN X)

\* neighbour tables the fitted graphs may return: family number f of a run
\* with seed s gets rotation s + f of the other samples, k distinct indices
\* per sample, never the sample itself
NbrSeeds == {0, 1}

\* models[feat].nbrs_.kneighbors()[1]: row i lists the k neighbours of sample i
KNeighbors(n, k, s) ==
    [i \in 0 .. n - 1 |-> [m \in 1 .. k |-> (i + 1 + ((s + m - 1) % (n - 1))) % n]]

\* mutant: the geometric mean is divided by the first sample's parameters
RatioRowFirst(cm, nb, i) ==
    [p \in 0 .. 2 |->
        Div(Exp(MeanLog([m \in 1 .. Len(nb[i]) |-> Log(cm[p][nb[i][m]])])), cm[p][0])]

\* np.exp(np.mean(np.log(cmap[:, knn[1][i, :]]), axis=1)) / cmap[:, i]
RatioRow(cm, nb, i) ==
    [p \in 0 .. 2 |->
        Div(Exp(MeanLog([m \in 1 .. Len(nb[i]) |-> Log(cm[p][nb[i][m]])])), cm[p][i])]

\* np.vstack of the rows of all samples
RatioTable(cm, nb, n) == [i \in 0 .. n - 1 |-> RatioRow(cm, nb, i)]

\* run_isomap: out_dir is created when absent
RunIsomapStart ==
    /\ pc = "start"
    /\ dirs' = IF OutDir \in dirs THEN dirs ELSE dirs \cup {OutDir}
    /\ pc' = "grids"
    /\ UNCHANGED <<n_steps, bw, duration, sr, skip_openl3, had_out_dir, nbr_seed, f0s, fms,
                   gammas, audio, cmap, c, ijk, cmapWrites, X, written, fitCalls,
                   knn, ratios, feat_i, calls, err>>

\* run_isomap: the three log-spaced grids of n_steps points
MakeGrids ==
    /\ pc = "grids"
    /\ f0s' = LogSpace(F0MinLog2, F0MaxLog2, n_steps)
    /\ fms' = LogSpace(FmMinLog2, FmMaxLog2, n_steps)
    /\ gammas' = LogSpace(GammaMinLog2, GammaMaxLog2, n_steps)
    /\ pc' = "generate_audio"
    /\ UNCHANGED <<n_steps, bw, duration, sr, skip_openl3, had_out_dir, nbr_seed, audio, cmap,
                   c, ijk, cmapWrites, X, dirs, written, fitCalls, knn, ratios,
                   feat_i, calls, err>>

\* run_isomaps(X, cmap, out_dir): Y, ratios, models start empty
RunIsomapsEnter ==
    /\ pc = "run_isomaps"
    /\ calls' = Append(calls, "run_isomaps")
    /\ feat_i' = 1
    /\ pc' = "isomaps_loop"
    /\ UNCHANGED <<n_steps, bw, duration, sr, skip_openl3, had_out_dir, nbr_seed, f0s, fms,
                   gammas, audio, cmap, c, ijk, cmapWrites, X, dirs, written,
                   fitCalls, knn, ratios, err>>

\* one iteration of the loop of run_isomaps over X.keys(): the family's
\* directory, the fit (which raises when it is asked for at least as many
\* neighbours as there are samples), the scatter plot and the ratios
RunIsomapsFeat ==
    /\ pc = "isomaps_loop"
    /\ feat_i <= Len(XKeys)
    /\ LET feat == XKeys[feat_i]
           feat_dir == Join(OutDir, feat)
           n == X[feat].nrows
       IN /\ dirs' = dirs \cup {OutDir, feat_dir}
          /\ fitCalls' = fitCalls \cup {feat}
          /\ \/ /\ DefaultNNeighbors >= n
                /\ Raise("run_isomaps")
                /\ UNCHANGED <<written, knn, ratios, feat_i>>
             \/ /\ DefaultNNeighbors < n
                /\ LET nb == KNeighbors(n, DefaultNNeighbors, nbr_seed + feat_i) IN
                      /\ knn' = (feat :> nb) @@ knn
                      /\ ratios' = (feat :> RatioTable(cmap, nb, n)) @@ ratios
                /\ written' = written \cup {IsomapPng(feat_dir)}
                /\ feat_i' = feat_i + 1
                /\ UNCHANGED <<pc, err>>
    /\ UNCHANGED <<n_steps, bw, duration, sr, skip_openl3, had_out_dir, nbr_seed, f0s, fms,
                   gammas, audio, cmap, c, ijk, cmapWrites, X, calls>>

\* plot_knn_regression(ratios, out_dir) after the loop, then the run is over
PlotKnnRegression ==
    /\ pc = "isomaps_loop"
    /\ feat_i > Len(XKeys)
    /\ written' = written \cup {KnnPng(OutDir)}
    /\ pc' = "done"
    /\ UNCHANGED <<n_steps, bw, duration, sr, skip_openl3, had_out_dir, nbr_seed, f0s, fms,
                   gammas, audio, cmap, c, ijk, cmapWrites, X, dirs, fitCalls,
                   knn, ratios, feat_i, calls, err>>

-----------------------------------------------------------------------------
(* Specifications *)

\* what is empty before anything ran
Blank ==
    /\ audio = [shape |-> <<0, 0, 0, 0>>, at |-> <<>>]
    /\ cmap = [p \in 0 .. 2 |-> <<>>]
    /\ cmapWrites = <<>>
    /\ c = 0
    /\ ijk = <<0, 0, 0>>
    /\ X = <<>>
    /\ written = {}
    /\ fitCalls = {}
    /\ knn = <<>>
    /\ ratios = <<>>
    /\ feat_i = 0
    /\ calls = <<>>
    /\ err = "none"

\* a run of run_isomap from the command line
Init ==
    /\ pc = "start"
    /\ n_steps \in 1 .. MaxSteps
    /\ bw \in Bws
    /\ \E ds \in DurSr : duration = ds[1] /\ sr = ds[2]
    /\ skip_openl3 \in BOOLEAN
    /\ had_out_dir \in BOOLEAN
    /\ nbr_seed \in NbrSeeds
    /\ dirs = IF had_out_dir THEN {OutDir} ELSE {}
    /\ f0s = <<>>
    /\ fms = <<>>
    /\ gammas = <<>>
    /\ Blank

Next ==
    \/ RunIsomapStart
    \/ MakeGrids
    \/ GenerateAudioEnter
    \/ GenerateStep
    \/ GenerateReturn
    \/ ExtractMfcc
    \/ ExtractTimeScattering
    \/ ExtractJtfs
    \/ ExtractOpenl3
    \/ ExtractStrf
    \/ RunIsomapsEnter
    \/ RunIsomapsFeat
    \/ PlotKnnRegression

Spec == Init /\ [][Next]_vars

\* values a frequency grid passed to generate_audio may hold, in increasing
\* order: 0 Hz and the two ends of the default range
GridValues(lo, hi) == <<Zero, Pow2(lo, 1), Pow2(hi, 1)>>

\* values a chirp-rate grid may hold: the two ends of the default range and 1
GammaValues(lo, hi) == <<Pow2(lo, 1), Pow2(0, 1), Pow2(hi, 1)>>

\* the strictly increasing grids of 1 .. MaxGridLen of these values
Grids(vals) ==
    UNION {{[i \in 0 .. n - 1 |-> vals[g[i]]] :
              g \in {h \in [0 .. n - 1 -> 1 .. Len(vals)] :
                        \A a, b \in 0 .. n - 1 : a < b => h[a] < h[b]}} :
           n \in 1 .. MaxGridLen}

\* generate_audio and extract_mfcc called on grids of any lengths
InitGen ==
    /\ pc = "generate_audio"
    /\ n_steps = 0
    /\ bw = DefaultBw
    /\ \E ds \in DurSr : duration = ds[1] /\ sr = ds[2]
    /\ skip_openl3 = FALSE
    /\ had_out_dir = FALSE
    /\ nbr_seed = 0
    /\ dirs = {}
    /\ f0s \in Grids(GridValues(F0MinLog2, F0MaxLog2))
    /\ fms \in Grids(GridValues(FmMinLog2, FmMaxLog2))
    /\ gammas \in Grids(GammaValues(GammaMinLog2, GammaMaxLog2))
    /\ Blank

NextGen ==
    \/ GenerateAudioEnter
    \/ GenerateStep
    \/ GenerateReturn
    \/ ExtractMfcc

SpecGen == InitGen /\ [][NextGen]_vars

-----------------------------------------------------------------------------
(* Properties *)

\* the flat index of grid point <<i, j, k>>
FlatIndex(t) == t[1] * GLen(fms) * GLen(gammas) + t[2] * GLen(gammas) + t[3]

NSamples == GLen(f0s) * GLen(fms) * GLen(gammas)

AllFamilies == {Families[n] : n \in 1 .. Len(Families)}

Returned == pc \notin {"start", "grids", "generate_audio", "gen_loop"}

\* C1: for every grid point <<i, j, k>>, once written, column
\* i*len(fms)*len(gammas) + j*len(gammas) + k of the parameter map holds
\* (f0s[i], fms[j], gammas[k]), and that row of every feature table present
\* is computed from the waveform audio[i, j, k], itself generated from the
\* parameters of that column.
C1_SameSample ==
    \A t \in DOMAIN audio.at :
        LET col == FlatIndex(t) IN
        /\ cmapWrites[col] > 0 =>
              /\ cmap[0][col] = f0s[t[1]]
              /\ cmap[1][col] = fms[t[2]]
              /\ cmap[2][col] = gammas[t[3]]
              /\ audio.at[t].f_c = f0s[t[1]]
              /\ audio.at[t].f_m = fms[t[2]]
              /\ audio.at[t].gamma = gammas[t[3]]
        /\ \A fam \in DOMAIN X :
              /\ col \in DOMAIN X[fam].row
              /\ X[fam].row[col].fam = fam
              /\ X[fam].row[col].of = audio.at[t]
              /\ X[fam].row[col].of.f_c = cmap[0][col]
              /\ X[fam].row[col].of.f_m = cmap[1][col]
              /\ X[fam].row[col].of.gamma = cmap[2][col]

C1_Witness ==
    /\ pc = "run_isomaps"
    /\ DOMAIN X = AllFamilies
    /\ n_steps = 3

\* C2: every feature table present has n_steps^3 rows, the product of the
\* three grid lengths and the number of columns of the parameter map.
C2_RowCount ==
    \A fam \in DOMAIN X :
        /\ X[fam].nrows = n_steps * n_steps * n_steps
        /\ X[fam].nrows = NSamples
        /\ X[fam].nrows = GLen(cmap[0])
        /\ DOMAIN X[fam].row = 0 .. X[fam].nrows - 1

C2_Witness ==
    /\ DOMAIN X = AllFamilies
    /\ n_steps = 3
    /\ X["STRF"].nrows = 27

\* C3: when skip_openl3 is set the pretrained-embedding extractor is not
\* invoked and the run does not abort in it.
C3_SkipsOpenl3 ==
    skip_openl3 =>
        /\ \A n \in 1 .. Len(calls) : calls[n] # "extract_openl3"
        /\ err # "extract_openl3"

\* C4: when the neighbour count is at least the number of samples, the error
\* comes before fit_transform is invoked and before any per-feature
\* directory or image exists.
C4_ErrorBeforeFit ==
    (\E fam \in DOMAIN X : DefaultNNeighbors >= X[fam].nrows) =>
        /\ fitCalls = {}
        /\ written = {}
        /\ \A fam \in AllFamilies : Join(OutDir, fam) \notin dirs

\* C5 as stated: a completed run has written exactly <out_dir>/isomap.png
\* and <out_dir>/knn.png, out_dir exists and so does one subdirectory per
\* feature family.
C5_TwoImages ==
    pc = "done" =>
        /\ written = {IsomapPng(OutDir), KnnPng(OutDir)}
        /\ OutDir \in dirs
        /\ \A fam \in AllFamilies : Join(OutDir, fam) \in dirs

\* C5 amended: a completed run has written one isomap.png inside every
\* feature family's subdirectory and <out_dir>/knn.png, six images in all;
\* out_dir exists and so does one subdirectory per feature family.
C5_ImagePerFamily ==
    pc = "done" =>
        /\ written = {Join(Join(OutDir, fam), "isomap.png") : fam \in AllFamilies}
                        \cup {Join(OutDir, "knn.png")}
        /\ Cardinality(written) = Len(Families) + 1
        /\ dirs = {OutDir} \cup {Join(OutDir, fam) : fam \in AllFamilies}

C5_Witness ==
    /\ pc = "done"
    /\ ~had_out_dir

\* the sum of the exponents of cm[nb[lo]] .. cm[nb[hi]]
RECURSIVE SumNum(_, _, _, _)
SumNum(cm, nb, lo, hi) ==
    IF lo > hi THEN 0
    ELSE IF lo = hi THEN cm[nb[lo]].num
    ELSE LET mid == (lo + hi) \div 2
         IN SumNum(cm, nb, lo, mid) + SumNum(cm, nb, mid + 1, hi)

\* C6: with all parameters positive, every recovery ratio r of sample i and
\* parameter p is positive with a finite logarithm, and r is the geometric
\* mean of p over the k neighbours of i divided by i's own value: with the
\* values 2^(e/d), k * log2(r) = (sum of the neighbours' e - k * own e) / d.
C6_Ratio ==
    (\A p \in 0 .. 2 : \A col \in DOMAIN cmap[p] : cmap[p][col].cls = "pos") =>
        \A fam \in DOMAIN ratios : \A i \in DOMAIN ratios[fam] : \A p \in 0 .. 2 :
            LET r == ratios[fam][i][p]
                nb == knn[fam][i]
                own == cmap[p][i]
            IN /\ r.cls = "pos"
               /\ Log(r).k = "fin"
               /\ Len(nb) = DefaultNNeighbors
               /\ \A m \in 1 .. Len(nb) : cmap[p][nb[m]].den = own.den
               /\ r.num * own.den * Len(nb)
                     = r.den * (SumNum(cmap[p], nb, 1, Len(nb)) - Len(nb) * own.num)

C6_Witness ==
    /\ pc = "done"
    /\ DOMAIN ratios = AllFamilies
    /\ \E i \in DOMAIN ratios["JTFS"] : ratios["JTFS"][i][2].num # 0

\* C7: every waveform generate_audio returns has L2 norm 1.
C7_UnitNorm ==
    Returned => \A t \in DOMAIN audio.at : audio.at[t].norm = "one"

\* C8: generate_audio returns audio of shape (len(f0s), len(fms),
\* len(gammas), duration*sr) and a parameter map of shape (3, product of the
\* lengths) with every column written exactly once and c ending at the
\* product; extract_mfcc returns (product, 20); two-point grids with
\* duration 1 and sr 2^10 give (2,2,2,1024), (3,8) and (8,20).
C8_Shapes ==
    Returned =>
        /\ audio.shape = <<GLen(f0s), GLen(fms), GLen(gammas), duration * sr>>
        /\ DOMAIN audio.at = Triples(GLen(f0s), GLen(fms), GLen(gammas))
        /\ \A t \in DOMAIN audio.at : audio.at[t].n = duration * sr
        /\ DOMAIN cmap = 0 .. 2
        /\ \A p \in 0 .. 2 : DOMAIN cmap[p] = 0 .. NSamples - 1
        /\ DOMAIN cmapWrites = 0 .. NSamples - 1
        /\ \A col \in DOMAIN cmapWrites : cmapWrites[col] = 1
        /\ c = NSamples
        /\ "MFCC" \in DOMAIN X =>
              /\ X["MFCC"].nrows = NSamples
              /\ X["MFCC"].ncols = 20
        /\ (GLen(f0s) = 2 /\ GLen(fms) = 2 /\ GLen(gammas) = 2
                /\ duration = 1 /\ sr = 1024) =>
              /\ audio.shape = <<2, 2, 2, 1024>>
              /\ GLen(cmap) = 3
              /\ \A p \in 0 .. 2 : GLen(cmap[p]) = 8
              /\ "MFCC" \in DOMAIN X =>
                    /\ X["MFCC"].nrows = 8
                    /\ X["MFCC"].ncols = 20

C8_Witness ==
    /\ "MFCC" \in DOMAIN X
    /\ GLen(f0s) = 2 /\ f0s[0] = Pow2(9, 1) /\ f0s[1] = Pow2(10, 1)
    /\ GLen(fms) = 2 /\ fms[0] = Pow2(2, 1) /\ fms[1] = Pow2(4, 1)
    /\ GLen(gammas) = 2 /\ gammas[0] = Pow2(-1, 1) /\ gammas[1] = Pow2(2, 1)
    /\ X["MFCC"].nrows = 8
    /\ duration = 1
    /\ sr = 1024
    /\ audio.shape = <<2, 2, 2, 1024>>

\* the order of the stages in the body of run_isomap
StageOrder ==
    <<"generate_audio", "extract_mfcc", "extract_time_scattering", "extract_jtfs",
      "extract_openl3", "extract_strf", "run_isomaps">>

Extractors == {StageOrder[n] : n \in 2 .. 6}

\* C9: the stages are invoked in the order generate_audio, extract_mfcc,
\* extract_time_scattering, extract_jtfs, extract_openl3, extract_strf,
\* run_isomaps; when an extractor has failed, the run has stopped, no
\* embedding was fitted, no image was written and no directory other than
\* out_dir exists.
C9_OrderNoPartial ==
    /\ Len(calls) <= Len(StageOrder)
    /\ calls = SubSeq(StageOrder, 1, Len(calls))
    /\ err \in Extractors =>
          /\ pc = "error"
          /\ calls[Len(calls)] = err
          /\ fitCalls = {}
          /\ written = {}
          /\ dirs = {OutDir}
          /\ DOMAIN ratios = {}

C9_Witness ==
    /\ err = "extract_strf"
    /\ DOMAIN X = AllFamilies \ {"STRF"}
    /\ ~had_out_dir

\* C10: whatever bw the run was started with, every generated waveform, in
\* the audio tensor and under every row of every feature table, was
\* generated with generate's default bw = 2, and the parameter map holds
\* only grid values.
C10_BwIgnored ==
    /\ \A t \in DOMAIN audio.at :
          cmapWrites[FlatIndex(t)] > 0 => audio.at[t].bw = DefaultBw
    /\ \A fam \in DOMAIN X : \A r \in DOMAIN X[fam].row :
          X[fam].row[r].of.bw = DefaultBw
    /\ \A col \in DOMAIN cmapWrites :
          cmapWrites[col] > 0 =>
              /\ \E i \in DOMAIN f0s : cmap[0][col] = f0s[i]
              /\ \E j \in DOMAIN fms : cmap[1][col] = fms[j]
              /\ \E k \in DOMAIN gammas : cmap[2][col] = gammas[k]

C10_Witness ==
    /\ bw # DefaultBw
    /\ pc = "done"
    /\ DOMAIN X = AllFamilies

====
